---- MODULE Spec2Model ----
(***************************************************************************)
(* Model of common/src/ether/evm/types.rs: the signature parser            *)
(* parse_function_parameters, the value formatter display and the bitmask  *)
(* heuristic convert_bitmask.  Strings are sequences of one-character      *)
(* strings, so that split, replace, starts_with, ... are computed          *)
(* character by character as the Rust code does.                           *)
(***************************************************************************)
EXTENDS Integers, Sequences, FiniteSets, TLC

VARIABLES pc, op, params, function_signature, parsed, tokens, prefix, output,
          instruction, inferred

vars == <<pc, op, params, function_signature, parsed, tokens, prefix, output,
          instruction, inferred>>

(***************************************************************************)
(* Bounds of the model.                                                    *)
(***************************************************************************)
\* longest parameter list of a generated signature
MaxParams == 2
\* call depth at which the thread's stack is taken to be exhausted
MaxStackDepth == 8
\* longest list of values handed to display
MaxTokens == 2
\* longest operand list of a generated instruction
MaxOperands == 2

(***************************************************************************)
(* String literals of the source, as character sequences.                  *)
(***************************************************************************)
S_address == <<"a","d","d","r","e","s","s">>
S_bytes == <<"b","y","t","e","s">>
S_bool == <<"b","o","o","l">>
S_string == <<"s","t","r","i","n","g">>
S_int == <<"i","n","t">>
S_uint == <<"u","i","n","t">>
S_lparen == <<"(">>
S_rparen == <<")">>
S_lbrack == <<"[">>
S_rbrack == <<"]">>
S_brackets == <<"[","]">>
S_comma == <<",">>
S_ff == <<"f","f">>
S_00 == <<"0","0">>
S_0x == <<"0","x">>

(***************************************************************************)
(* str methods of the Rust standard library used by the source.            *)
(***************************************************************************)
\* s[i..] starts with pat
MatchAt(s, i, pat) ==
    /\ i + Len(pat) - 1 <= Len(s)
    /\ \A k \in 1..Len(pat) : s[i + k - 1] = pat[k]

\* str::starts_with
StartsWith(s, pat) == MatchAt(s, 1, pat)

\* str::ends_with
EndsWith(s, pat) == Len(pat) <= Len(s) /\ MatchAt(s, Len(s) - Len(pat) + 1, pat)

\* str::contains
Contains(s, pat) == \E i \in 1..(Len(s) + 1) : MatchAt(s, i, pat)

\* index of the first match of pat in s, 0 when there is none (str::find)
Find(s, pat) ==
    IF Contains(s, pat)
    THEN CHOOSE i \in 1..(Len(s) + 1) :
            MatchAt(s, i, pat) /\ \A j \in 1..(i - 1) : ~MatchAt(s, j, pat)
    ELSE 0

\* index of the last match of pat in s, 0 when there is none (str::rfind)
RFind(s, pat) ==
    IF Contains(s, pat)
    THEN CHOOSE i \in 1..(Len(s) + 1) :
            MatchAt(s, i, pat) /\ \A j \in (i + 1)..(Len(s) + 1) : ~MatchAt(s, j, pat)
    ELSE 0

\* s[from..], empty when from is past the end
Tail_(s, from) == IF from > Len(s) THEN <<>> ELSE SubSeq(s, from, Len(s))

\* str::split(pat): the pieces between the non-overlapping matches, left to right
RECURSIVE Split(_, _)
Split(s, pat) ==
    LET i == Find(s, pat)
    IN IF i = 0 THEN <<s>>
       ELSE <<SubSeq(s, 1, i - 1)>> \o Split(Tail_(s, i + Len(pat)), pat)

\* [String]::join(sep)
RECURSIVE Join(_, _)
Join(pieces, sep) ==
    IF Len(pieces) = 0 THEN <<>>
    ELSE IF Len(pieces) = 1 THEN pieces[1]
    ELSE pieces[1] \o sep \o Join(Tail(pieces), sep)

\* str::replace(pat, ""): every non-overlapping match removed
Remove(s, pat) == Join(Split(s, pat), <<>>)

\* str::matches(pat).count()
MatchCount(s, pat) == Len(Split(s, pat)) - 1

\* crate::utils::strings::replace_last(s, old, ""): the last match of old removed
replace_last(s, old) ==
    LET i == RFind(s, old)
    IN IF i = 0 THEN s
       ELSE SubSeq(s, 1, i - 1) \o Tail_(s, i + Len(old))

Digits == <<"0","1","2","3","4","5","6","7","8","9">>

IsDigit(c) == \E d \in 1..10 : Digits[d] = c

DigitValue(c) == (CHOOSE d \in 1..10 : Digits[d] = c) - 1

RECURSIVE DecimalValue(_)
DecimalValue(s) ==
    IF Len(s) = 0 THEN 0
    ELSE 10 * DecimalValue(SubSeq(s, 1, Len(s) - 1)) + DigitValue(s[Len(s)])

\* str::parse::<usize>(): an optional '+', then one or more decimal digits
\* (the strings of the model are short, so the value always fits a usize)
ParseUsize(s) ==
    LET body == IF Len(s) > 0 /\ s[1] = "+" THEN Tail(s) ELSE s
    IN IF Len(body) > 0 /\ \A k \in 1..Len(body) : IsDigit(body[k])
       THEN [ok |-> TRUE, value |-> DecimalValue(body)]
       ELSE [ok |-> FALSE, value |-> 0]

(***************************************************************************)
(* ethers::abi::ParamType                                                  *)
(***************************************************************************)
PAddress == [kind |-> "Address", size |-> 0, elems |-> <<>>]
PBytes == [kind |-> "Bytes", size |-> 0, elems |-> <<>>]
PBool == [kind |-> "Bool", size |-> 0, elems |-> <<>>]
PString == [kind |-> "String", size |-> 0, elems |-> <<>>]
PInt(n) == [kind |-> "Int", size |-> n, elems |-> <<>>]
PUint(n) == [kind |-> "Uint", size |-> n, elems |-> <<>>]
PFixedBytes(n) == [kind |-> "FixedBytes", size |-> n, elems |-> <<>>]
PArray(t) == [kind |-> "Array", size |-> 0, elems |-> <<t>>]
PFixedArray(t, n) == [kind |-> "FixedArray", size |-> n, elems |-> <<t>>]
PTuple(ts) == [kind |-> "Tuple", size |-> 0, elems |-> ts]

(***************************************************************************)
(* parse_function_parameters                                               *)
(***************************************************************************)
\* the parameter list of a signature: the text after the first "(" (the whole
\* string when there is none), with the last ")" removed
StringInputs(signature) ==
    LET i == Find(signature, S_lparen)
    IN IF i # 0 THEN replace_last(Tail_(signature, i + 1), S_rparen)
       ELSE replace_last(signature, S_rparen)

\* one iteration of the rejoin loop over the comma-split fragments
RejoinStep(st, input) ==
    LET d1 == IF Contains(input, S_lparen) THEN st.tuple_depth + 1 ELSE st.tuple_depth
        complex1 == IF d1 > 0 THEN Append(st.complex_input, input) ELSE st.complex_input
        inputs1 == IF d1 > 0 THEN st.inputs ELSE Append(st.inputs, input)
        closes == Contains(input, S_rparen)
        d2 == IF closes THEN d1 - 1 ELSE d1
        emit == closes /\ d2 = 0
    IN [inputs |-> IF emit THEN Append(inputs1, Join(complex1, S_comma)) ELSE inputs1,
        complex_input |-> IF emit THEN <<>> ELSE complex1,
        tuple_depth |-> d2]

RECURSIVE RejoinFrom(_, _, _)
RejoinFrom(temp_inputs, i, st) ==
    IF i > Len(temp_inputs) THEN st
    ELSE RejoinFrom(temp_inputs, i + 1, RejoinStep(st, temp_inputs[i]))

\* the top-level inputs of a parameter list, and the depth counter the scan ends with
Rejoin(string_inputs) ==
    LET temp_inputs == Split(string_inputs, S_comma)
    IN IF Contains(string_inputs, S_lparen)
       THEN RejoinFrom(temp_inputs, 1,
                [inputs |-> <<>>, complex_input |-> <<>>, tuple_depth |-> 0])
       ELSE [inputs |-> temp_inputs, complex_input |-> <<>>, tuple_depth |-> 0]

\* outcomes of a call: Some(list), None, or the process aborted on stack exhaustion;
\* depth is the deepest call the evaluation made
Some(v, d) == [tag |-> "Some", val |-> v, depth |-> d]
None(d) == [tag |-> "None", val |-> <<>>, depth |-> d]
StackOverflow(d) == [tag |-> "StackOverflow", val |-> <<>>, depth |-> d]

Max(a, b) == IF a >= b THEN a ELSE b

\* IntSize with the fixed-bytes default of 32 in place of 256
IntSizeBytesDefault(solidity_type, word) ==
    LET size == ParseUsize(Remove(solidity_type, word))
    IN IF size.ok THEN size.value ELSE 32

\* width of an intN / uintN token, 256 when the digits do not parse
IntSize(solidity_type, word) ==
    LET size == ParseUsize(Remove(solidity_type, word))
    IN IF size.ok THEN size.value ELSE 256

\* width of a bytesN token, 32 when the digits do not parse
BytesSize(solidity_type) ==
    LET size == ParseUsize(Remove(solidity_type, S_bytes))
    IN IF size.ok THEN size.value ELSE 32

\* the size of a fixed array token: split("[").nth(1) with every "]" removed
ArraySize(solidity_type) ==
    LET pieces == Split(solidity_type, S_lbrack)
    IN IF Len(pieces) >= 2 THEN ParseUsize(Remove(pieces[2], S_rbrack))
       ELSE [ok |-> FALSE, value |-> 0]

\* the string the array branches recurse on
ArrayElement(solidity_type) == Remove(solidity_type, S_brackets)

\* the element type of an array built from the recursive result
ElementType(array_type) ==
    IF Len(array_type) = 1 THEN array_type[1] ELSE PTuple(array_type)

\* TuplePush without the skip of a None result
TuplePushUnchecked(r) == <<PTuple(r.val)>>

\* what a tuple token pushes, given the result of the recursive call
TuplePush(r) == IF r.tag = "Some" THEN <<PTuple(r.val)>> ELSE <<>>

RECURSIVE parse_at(_, _)

\* the body of the classification loop for one input: the descriptors pushed
\* (none or one), whether the process aborted, and the deepest call made
Classify(solidity_type, depth) ==
    LET push(ts) == [aborted |-> FALSE, out |-> ts, depth |-> depth]
        after(r, ts) == [aborted |-> r.tag = "StackOverflow", out |-> ts, depth |-> r.depth]
    IN IF solidity_type = S_address THEN push(<<PAddress>>)
       ELSE IF solidity_type = S_bytes THEN push(<<PBytes>>)
       ELSE IF solidity_type = S_bool THEN push(<<PBool>>)
       ELSE IF solidity_type = S_string THEN push(<<PString>>)
       ELSE IF StartsWith(solidity_type, S_lparen) /\ ~EndsWith(solidity_type, S_rbrack)
       THEN LET r == parse_at(solidity_type, depth + 1)
            IN after(r, TuplePush(r))
       ELSE IF EndsWith(solidity_type, S_brackets)
       THEN LET r == parse_at(ArrayElement(solidity_type), depth + 1)
            IN after(r, IF r.tag = "Some" THEN <<PArray(ElementType(r.val))>> ELSE <<>>)
       ELSE IF EndsWith(solidity_type, S_rbrack)
       THEN LET size == ArraySize(solidity_type)
            IN IF ~size.ok THEN push(<<>>)
               ELSE LET r == parse_at(ArrayElement(solidity_type), depth + 1)
                    IN after(r, IF r.tag = "Some"
                                THEN <<PFixedArray(ElementType(r.val), size.value)>>
                                ELSE <<>>)
       ELSE IF StartsWith(solidity_type, S_int)
       THEN push(<<PInt(IntSize(solidity_type, S_int))>>)
       ELSE IF StartsWith(solidity_type, S_uint)
       THEN push(<<PUint(IntSize(solidity_type, S_uint))>>)
       ELSE IF StartsWith(solidity_type, S_bytes)
       THEN push(<<PFixedBytes(BytesSize(solidity_type))>>)
       ELSE push(<<>>)

\* the classification loop from input i on, function_inputs being what is pushed so far
RECURSIVE ClassifyFrom(_, _, _, _, _)
ClassifyFrom(inputs, i, function_inputs, depth, deepest) ==
    IF i > Len(inputs)
    THEN [aborted |-> FALSE, out |-> function_inputs, depth |-> deepest]
    ELSE LET c == Classify(inputs[i], depth)
         IN IF c.aborted
            THEN [aborted |-> TRUE, out |-> <<>>, depth |-> c.depth]
            ELSE ClassifyFrom(inputs, i + 1, function_inputs \o c.out, depth,
                              Max(deepest, c.depth))

\* the final match on function_inputs.len()
Finish(function_inputs, deepest) ==
    IF Len(function_inputs) = 0 THEN None(deepest) ELSE Some(function_inputs, deepest)

\* parse_function_parameters called at call depth `depth`
parse_at(function_signature_, depth) ==
    IF depth > MaxStackDepth THEN StackOverflow(depth)
    ELSE LET inputs == Rejoin(StringInputs(function_signature_)).inputs
             c == ClassifyFrom(inputs, 1, <<>>, depth, depth)
         IN IF c.aborted THEN StackOverflow(c.depth) ELSE Finish(c.out, c.depth)

parse_function_parameters(function_signature_) == parse_at(function_signature_, 1)


(***************************************************************************)
(* The signatures handed to the parser: the grammar name(type,...) with    *)
(* type one of the primitives, T[], T[N] and (type,...), plus tokens that  *)
(* are no type at all.                                                     *)
(***************************************************************************)
\* deepest nesting of array and tuple types in a generated signature
MaxNesting == 2

RECURSIVE Decimal(_)
\* the decimal digits of a natural number (u64 / U256 to_string)
Decimal(n) ==
    IF n < 10 THEN <<Digits[n + 1]>>
    ELSE Decimal(n \div 10) \o <<Digits[(n % 10) + 1]>>

Prim(word, n) == [form |-> "prim", word |-> word, n |-> n, sub |-> <<>>]
Raw(word) == [form |-> "raw", word |-> word, n |-> -1, sub |-> <<>>]
ArrayOf(t) == [form |-> "array", word |-> <<>>, n |-> -1, sub |-> <<t>>]
FixedArrayOf(t, n) == [form |-> "fixed", word |-> <<>>, n |-> n, sub |-> <<t>>]
TupleOf(ts) == [form |-> "tuple", word |-> <<>>, n |-> -1, sub |-> ts]

\* the primitive types; n = -1 is a type written without a width
Primitives ==
    { Prim(S_address, -1), Prim(S_bool, -1), Prim(S_string, -1), Prim(S_bytes, -1),
      Prim(S_bytes, 32), Prim(S_bytes, 4), Prim(S_int, -1), Prim(S_int, 8),
      Prim(S_int, 256), Prim(S_uint, -1), Prim(S_uint, 256), Prim(S_uint, 24) }

\* tokens that are no type of the grammar
RawTokens == { Raw(<<"z","z","z">>), Raw(<<>>), Raw(<<"(",")">>), Raw(<<"(","z","z","z",")">>) }

ElementPrims == { Prim(S_uint, 256), Prim(S_address, -1), Prim(S_string, -1) }

FixedLengths == {3, 10}

RECURSIVE Types(_)
\* the types nested at most k deep
Types(k) ==
    IF k = 0 THEN ElementPrims
    ELSE LET below == Types(k - 1)
         IN below
            \cup { ArrayOf(t) : t \in below }
            \cup { FixedArrayOf(t, n) : t \in below, n \in FixedLengths }
            \cup { TupleOf(<<t>>) : t \in below }
            \cup { TupleOf(<<t, Prim(S_uint, 256)>>) : t \in below }
            \cup { TupleOf(<<Prim(S_uint, 256), t>>) : t \in below }

SeqsUpTo(S, n) == UNION { [1..k -> S] : k \in 0..n }

\* the parameter lists of the generated signatures
ParamLists ==
    SeqsUpTo(Primitives, MaxParams)
    \cup { <<t>> : t \in Types(MaxNesting) \cup RawTokens }
    \cup { <<Prim(S_address, -1), t>> : t \in Types(MaxNesting) \cup RawTokens }
    \cup { <<t, Prim(S_bool, -1)>> : t \in Types(MaxNesting) \cup RawTokens }

RECURSIVE Render(_)
\* a type as the signature grammar writes it
Render(t) ==
    IF t.form = "prim" THEN t.word \o (IF t.n < 0 THEN <<>> ELSE Decimal(t.n))
    ELSE IF t.form = "raw" THEN t.word
    ELSE IF t.form = "array" THEN Render(t.sub[1]) \o S_brackets
    ELSE IF t.form = "fixed"
    THEN Render(t.sub[1]) \o S_lbrack \o Decimal(t.n) \o S_rbrack
    ELSE S_lparen \o Join([i \in 1..Len(t.sub) |-> Render(t.sub[i])], S_comma) \o S_rparen

\* the signature f(t1,...,tn)
Signature(ps) ==
    <<"f">> \o S_lparen \o Join([i \in 1..Len(ps) |-> Render(ps[i])], S_comma) \o S_rparen

(***************************************************************************)
(* ethers::abi::Token and display                                          *)
(***************************************************************************)
\* data holds the bytes of an address or byte value, or the characters of a string
TAddress(bs) == [kind |-> "Address", data |-> bs, num |-> 0, flag |-> FALSE, elems |-> <<>>]
TInt(n) == [kind |-> "Int", data |-> <<>>, num |-> n, flag |-> FALSE, elems |-> <<>>]
TUint(n) == [kind |-> "Uint", data |-> <<>>, num |-> n, flag |-> FALSE, elems |-> <<>>]
TString(cs) == [kind |-> "String", data |-> cs, num |-> 0, flag |-> FALSE, elems |-> <<>>]
TBool(b) == [kind |-> "Bool", data |-> <<>>, num |-> 0, flag |-> b, elems |-> <<>>]
TBytes(bs) == [kind |-> "Bytes", data |-> bs, num |-> 0, flag |-> FALSE, elems |-> <<>>]
TFixedBytes(bs) == [kind |-> "FixedBytes", data |-> bs, num |-> 0, flag |-> FALSE, elems |-> <<>>]
TArray(vs) == [kind |-> "Array", data |-> <<>>, num |-> 0, flag |-> FALSE, elems |-> vs]
TFixedArray(vs) == [kind |-> "FixedArray", data |-> <<>>, num |-> 0, flag |-> FALSE, elems |-> vs]
TTuple(vs) == [kind |-> "Tuple", data |-> <<>>, num |-> 0, flag |-> FALSE, elems |-> vs]

HexDigits == <<"0","1","2","3","4","5","6","7","8","9","a","b","c","d","e","f">>

RECURSIVE HexEncode(_)
\* hex::encode: two lower-case hex digits per byte (Token's Display of an address
\* or a byte value)
HexEncode(bs) ==
    IF Len(bs) = 0 THEN <<>>
    ELSE <<HexDigits[(bs[1] \div 16) + 1], HexDigits[(bs[1] % 16) + 1]>> \o HexEncode(Tail(bs))

\* the chunk length of display's chunks(64)
ChunkSize == 64

RECURSIVE Chunks(_, _)
\* slice::chunks(n): consecutive pieces of n items, the last one possibly shorter;
\* no piece at all for an empty slice
Chunks(cs, n) ==
    IF Len(cs) = 0 THEN <<>>
    ELSE IF Len(cs) <= n THEN <<cs>>
    ELSE <<SubSeq(cs, 1, n)>> \o Chunks(Tail_(cs, n + 1), n)

L_address == <<"a","d","d","r","e","s","s">>
L_int == <<"i","n","t"," "," "," "," ">>
L_uint == <<"u","i","n","t"," "," "," ">>
L_string == <<"s","t","r","i","n","g"," ">>
L_bool == <<"b","o","o","l"," "," "," ">>
L_bytes == <<"b","y","t","e","s"," "," ">>
L_blank == <<" "," "," "," "," "," "," ">>
L_indent == <<" "," "," ">>
L_true == <<"t","r","u","e">>
L_false == <<"f","a","l","s","e">>

\* BytesLine with the tag and 0x repeated on every chunk
BytesLineTagged(prefix_, i, byte) == prefix_ \o L_bytes \o <<" ">> \o S_0x \o byte

\* the line of chunk i of a byte value
BytesLine(prefix_, i, byte) ==
    IF i = 1 THEN prefix_ \o L_bytes \o <<" ">> \o S_0x \o byte
    ELSE prefix_ \o L_blank \o L_indent \o byte

\* the lines of a Bytes or FixedBytes value
BytesLines(input, prefix_) ==
    LET bytes == Chunks(HexEncode(input.data), ChunkSize)
    IN [i \in 1..Len(bytes) |-> BytesLine(prefix_, i, bytes[i])]

\* the lines of an array or tuple, inner being the lines of its members
Bracketed(prefix_, open, close, n, inner) ==
    IF n = 0 THEN <<prefix_ \o open \o close>>
    ELSE <<prefix_ \o open>> \o inner \o <<prefix_ \o close>>

RECURSIVE display(_, _)

\* the match arm of display for one input
DisplayOne(input, prefix_) ==
    IF input.kind = "Address"
    THEN <<prefix_ \o L_address \o <<" ">> \o S_0x \o HexEncode(input.data)>>
    ELSE IF input.kind = "Int" THEN <<prefix_ \o L_int \o <<" ">> \o Decimal(input.num)>>
    ELSE IF input.kind = "Uint" THEN <<prefix_ \o L_uint \o <<" ">> \o Decimal(input.num)>>
    ELSE IF input.kind = "String" THEN <<prefix_ \o L_string \o <<" ">> \o input.data>>
    ELSE IF input.kind = "Bool"
    THEN IF input.flag THEN <<prefix_ \o L_bool \o <<" ">> \o L_true>>
         ELSE <<prefix_ \o L_bool \o <<" ">> \o L_false>>
    ELSE IF input.kind \in {"FixedBytes", "Bytes"} THEN BytesLines(input, prefix_)
    ELSE IF input.kind \in {"FixedArray", "Array"}
    THEN Bracketed(prefix_, S_lbrack, S_rbrack, Len(input.elems),
                   display(input.elems, prefix_ \o L_indent))
    ELSE Bracketed(prefix_, S_lparen, S_rparen, Len(input.elems),
                   display(input.elems, prefix_ \o L_indent))

display(inputs, prefix_) ==
    IF Len(inputs) = 0 THEN <<>>
    ELSE DisplayOne(inputs[1], prefix_) \o display(Tail(inputs), prefix_)

(***************************************************************************)
(* The values handed to display.                                           *)
(***************************************************************************)
\* deepest nesting of arrays and tuples in a generated value
MaxValueDepth == 1

\* n bytes of varying content
SomeBytes(n) == [i \in 1..n |-> (37 * i + 11) % 256]

ByteLengths == {0, 1, 31, 32, 33, 64, 65}

LeafValues ==
    { TAddress(SomeBytes(20)), TInt(5), TUint(0), TUint(255), TString(<<"h","i">>),
      TString(<<>>), TBool(TRUE), TBool(FALSE), TFixedBytes(SomeBytes(4)),
      TFixedBytes(SomeBytes(32)) }
    \cup { TBytes(SomeBytes(n)) : n \in ByteLengths }

RECURSIVE Values(_)
\* the values nested at most k deep
Values(k) ==
    IF k = 0 THEN LeafValues
    ELSE LET below == Values(k - 1)
         IN below
            \cup { TArray(<<>>), TFixedArray(<<>>), TTuple(<<>>) }
            \cup { TArray(<<v>>) : v \in below }
            \cup { TFixedArray(<<v, v>>) : v \in below }
            \cup { TTuple(<<v, TBool(TRUE)>>) : v \in below }

\* the values that also appear in longer lists
ListValues ==
    { TUint(255), TBytes(SomeBytes(0)), TBytes(SomeBytes(33)), TArray(<<>>),
      TTuple(<<TBool(TRUE), TBytes(SomeBytes(65))>>) }

TokenLists ==
    SeqsUpTo(ListValues, MaxTokens) \cup { <<v>> : v \in Values(MaxValueDepth) }

Prefixes == { <<>>, <<" "," ">> }

(***************************************************************************)
(* convert_bitmask                                                         *)
(***************************************************************************)
\* WrappedInput::Raw(_) and WrappedInput::Opcode(opcode), of which the code reads
\* opcode.opcode.name only
RawInput == [kind |-> "Raw", name |-> ""]
OpcodeInput(name) == [kind |-> "Opcode", name |-> name]

\* WrappedOpcode { opcode, inputs }
WrappedOpcode(name, inputs) == [name |-> name, inputs |-> inputs]

\* U256::encode_hex(): "0x" and the 64 hex digits of the 32-byte big-endian word
EncodeHex(word) == S_0x \o HexEncode(word)

Returned(size) == [outcome |-> "returned", potential_types |-> <<>>, type_byte_size |-> size]
Panicked(size) == [outcome |-> "panicked", potential_types |-> <<>>, type_byte_size |-> size]

\* the match arm of the loop for operand i (counted from 1) of the mask: the new
\* type_byte_size, or a panic on instruction.inputs[i] out of range
MaskStep(instruction_, mask, i, type_byte_size) ==
    LET input == mask.inputs[i]
        in_range == i <= Len(instruction_.inputs)
    IN IF input.kind = "Raw" THEN Returned(type_byte_size)
       ELSE IF input.name = "CALLDATALOAD" \/ input.name = "CALLDATACOPY"
       THEN Returned(type_byte_size)
       ELSE IF mask.name = "AND"
       THEN IF in_range
            THEN Returned(MatchCount(EncodeHex(instruction_.inputs[i]), S_ff))
            ELSE Panicked(type_byte_size)
       ELSE IF mask.name = "OR"
       THEN IF in_range
            THEN Returned(MatchCount(EncodeHex(instruction_.inputs[i]), S_00))
            ELSE Panicked(type_byte_size)
       ELSE Returned(type_byte_size)

RECURSIVE MaskLoop(_, _, _, _)
MaskLoop(instruction_, mask, i, type_byte_size) ==
    IF i > Len(mask.inputs) THEN Returned(type_byte_size)
    ELSE LET r == MaskStep(instruction_, mask, i, type_byte_size)
         IN IF r.outcome = "panicked" THEN r
            ELSE MaskLoop(instruction_, mask, i + 1, r.type_byte_size)

\* potential_types stays the empty list it is created as; 32 is the default size
convert_bitmask(instruction_) ==
    IF Len(instruction_.output_operations) = 0 THEN Panicked(32)
    ELSE MaskLoop(instruction_, instruction_.output_operations[1], 1, 32)

(***************************************************************************)
(* The instructions handed to convert_bitmask.                             *)
(***************************************************************************)
Word(high, low, n) == [i \in 1..32 |-> IF i <= 32 - n THEN high ELSE low]

\* 12 zero bytes, then 20 ff bytes
AddressMask == Word(0, 255, 20)

Masks ==
    { AddressMask, Word(0, 255, 1), Word(255, 0, 20), Word(0, 0, 0),
      [i \in 1..32 |-> IF i = 30 THEN 15 ELSE IF i = 31 THEN 255 ELSE IF i = 32 THEN 240 ELSE 0] }

Operands ==
    { RawInput, OpcodeInput("CALLDATALOAD"), OpcodeInput("CALLDATACOPY"), OpcodeInput("PUSH20") }

Instructions ==
    { [inputs |-> ins, output_operations |-> outs] :
        ins \in SeqsUpTo(Masks, MaxOperands),
        outs \in { <<>> } \cup
                 { <<WrappedOpcode(name, ops)>> :
                     name \in {"AND", "OR", "ADD"}, ops \in SeqsUpTo(Operands, MaxOperands) } }

(***************************************************************************)
(* The state machine: a caller picks an operation and its argument, the    *)
(* operation runs to completion.                                           *)
(***************************************************************************)
NotParsed == [tag |-> "Pending", val |-> <<>>, depth |-> 0, inputs |-> <<>>, tuple_depth |-> 0]

NoInstruction == [inputs |-> <<>>, output_operations |-> <<>>]

NotInferred == [outcome |-> "pending", potential_types |-> <<>>, type_byte_size |-> 0]

InitParse ==
    /\ op = "parse"
    /\ params \in ParamLists
    /\ function_signature = Signature(params)
    /\ tokens = <<>> /\ prefix = <<>> /\ instruction = NoInstruction

InitDisplay ==
    /\ op = "display"
    /\ tokens \in TokenLists
    /\ prefix \in Prefixes
    /\ params = <<>> /\ function_signature = <<>> /\ instruction = NoInstruction

InitBitmask ==
    /\ op = "convert_bitmask"
    /\ instruction \in Instructions
    /\ params = <<>> /\ function_signature = <<>> /\ tokens = <<>> /\ prefix = <<>>

Init ==
    /\ pc = "call"
    /\ parsed = NotParsed
    /\ output = <<>>
    /\ inferred = NotInferred
    /\ (InitParse \/ InitDisplay \/ InitBitmask)

\* parse_function_parameters(function_signature); the top-level inputs and the depth
\* counter of the outermost call's rejoin scan are kept beside the result
Parse ==
    /\ pc = "call" /\ op = "parse"
    /\ LET r == parse_function_parameters(function_signature)
           scan == Rejoin(StringInputs(function_signature))
       IN parsed' = [tag |-> r.tag, val |-> r.val, depth |-> r.depth,
                     inputs |-> scan.inputs, tuple_depth |-> scan.tuple_depth]
    /\ pc' = "done"
    /\ UNCHANGED <<op, params, function_signature, tokens, prefix, output,
                   instruction, inferred>>

\* display(tokens, prefix)
Display ==
    /\ pc = "call" /\ op = "display"
    /\ output' = display(tokens, prefix)
    /\ pc' = "done"
    /\ UNCHANGED <<op, params, function_signature, parsed, tokens, prefix,
                   instruction, inferred>>

\* convert_bitmask(instruction)
ConvertBitmask ==
    /\ pc = "call" /\ op = "convert_bitmask"
    /\ inferred' = convert_bitmask(instruction)
    /\ pc' = "done"
    /\ UNCHANGED <<op, params, function_signature, parsed, tokens, prefix, output,
                   instruction>>

Next == Parse \/ Display \/ ConvertBitmask

Spec == Init /\ [][Next]_vars

(***************************************************************************)
(* What the signature grammar says a type is: the descriptor of each type  *)
(* of the grammar, and the top-level parameters of a parameter list.       *)
(***************************************************************************)
RECURSIVE TypeOf(_)
TypeOf(t) ==
    IF t.form = "prim"
    THEN IF t.word = S_address THEN PAddress
         ELSE IF t.word = S_bool THEN PBool
         ELSE IF t.word = S_string THEN PString
         ELSE IF t.word = S_bytes THEN (IF t.n < 0 THEN PBytes ELSE PFixedBytes(t.n))
         ELSE IF t.word = S_int THEN PInt(IF t.n < 0 THEN 256 ELSE t.n)
         ELSE PUint(IF t.n < 0 THEN 256 ELSE t.n)
    ELSE IF t.form = "array" THEN PArray(TypeOf(t.sub[1]))
    ELSE IF t.form = "fixed" THEN PFixedArray(TypeOf(t.sub[1]), t.n)
    ELSE PTuple([i \in 1..Len(t.sub) |-> TypeOf(t.sub[i])])

\* the parenthesis depth after the first k characters of s
ParenDepth(s, k) ==
    Cardinality({ j \in 1..k : s[j] = "(" }) - Cardinality({ j \in 1..k : s[j] = ")" })

Balanced(s) ==
    /\ \A k \in 1..Len(s) : ParenDepth(s, k) >= 0
    /\ ParenDepth(s, Len(s)) = 0

RECURSIVE TopLevelFrom(_, _)
\* the comma-separated parameters of s[start..], commas inside parentheses not counted
TopLevelFrom(s, start) ==
    LET commas == { k \in start..Len(s) : s[k] = "," /\ ParenDepth(s, k) = 0 }
    IN IF commas = {} THEN <<Tail_(s, start)>>
       ELSE LET c == CHOOSE k \in commas : \A j \in commas : k <= j
            IN <<SubSeq(s, start, c - 1)>> \o TopLevelFrom(s, c + 1)

TopLevelParameters(s) == TopLevelFrom(s, 1)

ParseDone == pc = "done" /\ op = "parse"
DisplayDone == pc = "done" /\ op = "display"
BitmaskDone == pc = "done" /\ op = "convert_bitmask"

IsFlat(ps) == Len(ps) >= 1 /\ \A i \in 1..Len(ps) : ps[i].form = "prim"

\* C1: a flat signature f(t1,...,tn), n >= 1, of primitives parses to exactly n
\* descriptors, the i-th the descriptor of ti, in order; int and uint without a
\* width are 256 bits wide, bytes is dynamic Bytes and bytes32 is FixedBytes(32).
C1_FlatSignature ==
    (ParseDone /\ IsFlat(params)) =>
        /\ parsed.tag = "Some"
        /\ parsed.val = [i \in 1..Len(params) |-> TypeOf(params[i])]

C1_Witness ==
    /\ ParseDone
    /\ params = <<Prim(S_uint, -1), Prim(S_bytes, 32)>>
    /\ parsed.val = <<PUint(256), PFixedBytes(32)>>

\* C2: f(T[N]) parses to the one-element list [FixedArray(D, N)], D the descriptor
\* of T and N the integer inside the final bracket.
C2_FixedArray ==
    (ParseDone /\ Len(params) = 1 /\ params[1].form = "fixed") =>
        /\ parsed.tag = "Some"
        /\ parsed.val = <<PFixedArray(TypeOf(params[1].sub[1]), params[1].n)>>

\* C3: for a parameter list with balanced parentheses the rejoin scan emits exactly
\* the top-level comma-separated parameters, each once and in order, and its depth
\* counter ends at zero.
C3_RejoinTopLevel ==
    (ParseDone /\ Balanced(StringInputs(function_signature))) =>
        /\ parsed.inputs = TopLevelParameters(StringInputs(function_signature))
        /\ parsed.tuple_depth = 0

\* C4: a token E[] is parsed by recursing on E, the token without its trailing []
\* only, and wrapping the result: Array(D) for the single descriptor D,
\* Array(Tuple(elements)) for several.
C4_DynamicArray ==
    (ParseDone /\ Len(params) = 1 /\ params[1].form = "array") =>
        LET r == parse_function_parameters(Render(params[1].sub[1]))
        IN r.tag = "Some" =>
              /\ parsed.tag = "Some"
              /\ parsed.val = <<PArray(IF Len(r.val) = 1 THEN r.val[1] ELSE PTuple(r.val))>>

\* C5: the parser terminates on every input: its recursion stays within a fixed
\* maximum depth and never runs until the stack is exhausted.
C5_BoundedRecursion ==
    ParseDone => (parsed.tag # "StackOverflow" /\ parsed.depth <= MaxStackDepth)

RECURSIVE NoEmptyTuple(_)
NoEmptyTuple(d) ==
    /\ d.kind = "Tuple" => Len(d.elems) > 0
    /\ \A i \in 1..Len(d.elems) : NoEmptyTuple(d.elems[i])

\* C6: the parser returns None exactly when no top-level token yields a descriptor
\* (as for f() and f(zzz)); a returned list is non-empty and holds no Tuple
\* descriptor without members, at any depth.
C6_NoneOrNonEmpty ==
    (ParseDone /\ parsed.tag # "StackOverflow") =>
        /\ parsed.tag \in {"None", "Some"}
        /\ parsed.tag = "None" <=>
              \A i \in 1..Len(parsed.inputs) : Classify(parsed.inputs[i], 1).out = <<>>
        /\ parsed.tag = "None" => parsed.val = <<>>
        /\ parsed.tag = "Some" =>
              /\ Len(parsed.val) > 0
              /\ \A i \in 1..Len(parsed.val) : NoEmptyTuple(parsed.val[i])
        /\ params \in {<<>>, <<Raw(<<"z","z","z">>)>>} => parsed.tag = "None"

C6_Witness ==
    /\ ParseDone
    /\ params = <<Prim(S_address, -1), Raw(<<"(","z","z","z",")">>)>>
    /\ parsed.tag = "Some"
    /\ parsed.val = <<PAddress>>

IsCalldata(input) ==
    input.kind = "Opcode" /\ input.name \in {"CALLDATALOAD", "CALLDATACOPY"}

\* an AND of a calldata-rooted operand with the mask of 20 ff bytes and 12 00 bytes
IsAddressMasking(instruction_) ==
    /\ Len(instruction_.output_operations) >= 1
    /\ LET mask == instruction_.output_operations[1]
       IN /\ mask.name = "AND"
          /\ Len(mask.inputs) = 2 /\ Len(instruction_.inputs) = 2
          /\ \E i, j \in 1..2 :
                /\ i # j
                /\ IsCalldata(mask.inputs[i])
                /\ mask.inputs[j] = OpcodeInput("PUSH20")
                /\ instruction_.inputs[j] = AddressMask

HasCalldataOperand(instruction_) ==
    /\ Len(instruction_.output_operations) >= 1
    /\ \E i \in 1..Len(instruction_.output_operations[1].inputs) :
          IsCalldata(instruction_.output_operations[1].inputs[i])

\* C7: for an AND of a calldata-rooted operand with the 20-byte mask the width is
\* 20 and the first candidate is address; the candidate list is non-empty whenever
\* the width is below 32 and empty when no operand is calldata-rooted.
C7_Candidates ==
    (BitmaskDone /\ inferred.outcome = "returned") =>
        /\ IsAddressMasking(instruction) =>
              /\ inferred.type_byte_size = 20
              /\ Len(inferred.potential_types) >= 1
              /\ inferred.potential_types[1] = "address"
        /\ inferred.type_byte_size < 32 => Len(inferred.potential_types) >= 1
        /\ ~HasCalldataOperand(instruction) => inferred.potential_types = <<>>

\* C8: convert_bitmask returns a candidate list for every instruction and never
\* aborts, whatever the lengths of its output expressions and operand lists.
C8_NeverFails ==
    BitmaskDone => inferred.outcome = "returned"

\* the characters of a byte value's line after the prefix, the tag column and " 0x"
Payload(line) == Tail_(line, Len(prefix) + 11)
Header(line) == SubSeq(line, 1, Len(prefix) + 10)

RECURSIVE Concat(_)
Concat(ss) == IF Len(ss) = 0 THEN <<>> ELSE ss[1] \o Concat(Tail(ss))

IsByteValue(v) == v.kind \in {"Bytes", "FixedBytes"}

\* C9: a byte value of n >= 1 bytes is rendered as ceil(n/32) lines whose payloads
\* concatenate to its 2n hex digits, every payload but the last 64 characters long,
\* the first line alone carrying the bytes tag and 0x.
C9_ByteChunks ==
    (DisplayDone /\ Len(tokens) = 1 /\ IsByteValue(tokens[1]) /\ Len(tokens[1].data) >= 1) =>
        LET n == Len(tokens[1].data)
        IN /\ Len(output) = (n + 31) \div 32
           /\ \A i \in 1..Len(output) : Len(output[i]) >= Len(prefix) + 10
           /\ Concat([i \in 1..Len(output) |-> Payload(output[i])]) = HexEncode(tokens[1].data)
           /\ Len(HexEncode(tokens[1].data)) = 2 * n
           /\ \A i \in 1..(Len(output) - 1) : Len(Payload(output[i])) = 64
           /\ Header(output[1]) = prefix \o L_bytes \o <<" ">> \o S_0x
           /\ \A i \in 2..Len(output) : Header(output[i]) = prefix \o L_blank \o L_indent

C9_Witness ==
    /\ DisplayDone
    /\ tokens = <<TBytes(SomeBytes(65))>>
    /\ Len(output) = 3
    /\ Len(Payload(output[3])) = 2

RECURSIVE LinesOf(_)
RECURSIVE SumLines(_)
\* the number of lines a value is said to take
LinesOf(v) ==
    IF IsByteValue(v)
    THEN (IF 2 * Len(v.data) <= 64 THEN 1 ELSE (2 * Len(v.data) + 63) \div 64)
    ELSE IF v.kind \in {"Array", "FixedArray", "Tuple"}
    THEN (IF Len(v.elems) = 0 THEN 1 ELSE 2 + SumLines(v.elems))
    ELSE 1

SumLines(vs) == IF Len(vs) = 0 THEN 0 ELSE LinesOf(vs[1]) + SumLines(Tail(vs))

\* C10: display returns as many lines as the values' line counts add up to, 1 for
\* a scalar, 1 plus one per further 64-digit chunk for a byte value, 1 for an empty
\* array or tuple, 2 plus its members' lines otherwise; every value takes a line.
C10_LineCount ==
    DisplayDone =>
        /\ Len(output) = SumLines(tokens)
        /\ Len(tokens) >= 1 => Len(output) >= Len(tokens)

====
